---- MODULE Spec2Model ----
(***************************************************************************)
(* Model of the verdict engine of src/index.js: the POST /verify route     *)
(* (multer upload boundary, parseLabels, buildCoreVerdict, the OCR await,  *)
(* the response) as a state machine of one request.                        *)
(*                                                                         *)
(* JavaScript strings that the code inspects (filenames, media types, OCR  *)
(* text) are sequences of one-character strings, so that includes,         *)
(* startsWith, toLowerCase, trim and the regular expressions are computed  *)
(* as the code computes them.  View labels, brands and the fixed reason    *)
(* texts are only compared for equality and are TLA+ strings.              *)
(***************************************************************************)
EXTENDS Integers, Sequences, FiniteSets, TLC

(***************************************************************************)
(* JavaScript built-ins used by the code                                   *)
(***************************************************************************)
\* JavaScript is call by value: an argument, or the initialiser of a const,
\* is evaluated once, and the body then reads the value.
Call(x, F(_)) == CHOOSE r \in { F(v) : v \in { x } } : TRUE

Call2(x, y, F(_, _)) == CHOOSE r \in { F(v, w) : v \in { x }, w \in { y } } : TRUE

UpperCase ==
  << "A","B","C","D","E","F","G","H","I","J","K","L","M",
     "N","O","P","Q","R","S","T","U","V","W","X","Y","Z" >>

LowerCase ==
  << "a","b","c","d","e","f","g","h","i","j","k","l","m",
     "n","o","p","q","r","s","t","u","v","w","x","y","z" >>

Digits == { "0","1","2","3","4","5","6","7","8","9" }

Whitespace == { " ", "\t", "\n" }

IsUpper(c) == \E k \in 1..26 : UpperCase[k] = c

IsLower(c) == \E k \in 1..26 : LowerCase[k] = c

ToLowerChar(c) ==
  IF IsUpper(c) THEN LowerCase[CHOOSE k \in 1..26 : UpperCase[k] = c] ELSE c

ToUpperChar(c) ==
  IF IsLower(c) THEN UpperCase[CHOOSE k \in 1..26 : LowerCase[k] = c] ELSE c

\* String.prototype.toLowerCase
toLowerCase(s) == [k \in 1..Len(s) |-> ToLowerChar(s[k])]

\* String.prototype.toUpperCase
toUpperCase(s) == [k \in 1..Len(s) |-> ToUpperChar(s[k])]

\* String.prototype.includes: k occurs in s as a substring
includes(s, k) ==
  \E j \in 0..(Len(s) - Len(k)) : SubSeq(s, j + 1, j + Len(k)) = k

\* String.prototype.startsWith
startsWith(s, p) == Len(s) >= Len(p) /\ SubSeq(s, 1, Len(p)) = p

\* String.prototype.trim: leading and trailing whitespace removed
RECURSIVE TrimLeft(_)
TrimLeft(s) ==
  IF s # << >> /\ Head(s) \in Whitespace THEN TrimLeft(Tail(s)) ELSE s

RECURSIVE TrimRight(_)
TrimRight(s) ==
  IF s # << >> /\ s[Len(s)] \in Whitespace
  THEN TrimRight(SubSeq(s, 1, Len(s) - 1))
  ELSE s

trim(s) == TrimRight(TrimLeft(s))

\* s.replace(/\s+/g, "_"): every maximal run of whitespace becomes one "_"
RECURSIVE ReplaceWhitespaceRuns(_)
ReplaceWhitespaceRuns(s) ==
  IF s = << >> THEN << >>
  ELSE IF Head(s) \in Whitespace
       THEN << "_" >> \o ReplaceWhitespaceRuns(TrimLeft(s))
       ELSE << Head(s) >> \o ReplaceWhitespaceRuns(Tail(s))

\* s.replace(/[^A-Za-z0-9]/g, ""): only letters and digits are kept
RECURSIVE StripNonAlphanumeric(_)
StripNonAlphanumeric(s) ==
  IF s = << >> THEN << >>
  ELSE IF IsUpper(Head(s)) \/ IsLower(Head(s)) \/ Head(s) \in Digits
       THEN << Head(s) >> \o StripNonAlphanumeric(Tail(s))
       ELSE StripNonAlphanumeric(Tail(s))

(***************************************************************************)
(* JavaScript values                                                       *)
(***************************************************************************)
\* null / undefined where the code expects a view or a brand
Null == "<null>"

\* The object a property read of a plain object yields for a name the object
\* inherits from Object.prototype (labels["__proto__"], labels["constructor"]).
InheritedObject == "<Object.prototype member>"

\* An optional text: null, or a string
NoText == [has |-> FALSE, text |-> << >>]

SomeText(t) == [has |-> TRUE, text |-> t]

\* if (x): null and the empty string are falsy
Truthy(x) == x.has /\ x.text # << >>

\* Names every plain object inherits from Object.prototype (those the model's
\* filenames can hit).
proto_name == << "_","_","p","r","o","t","o","_","_" >>

constructor_name == << "c","o","n","s","t","r","u","c","t","o","r" >>

ObjectPrototypeKeys == { proto_name, constructor_name }

(***************************************************************************)
(* Core engine constants                                                   *)
(***************************************************************************)
REQUIRED_VIEWS ==
  << "front", "back", "side", "bottom", "top", "interior",
     "logo_stamp", "hardware", "handle_base", "stitching" >>

ALLOWED_VIEWS ==
  { "front", "back", "side", "bottom", "top", "interior",
    "logo_stamp", "hardware", "handle_base", "stitching", "serial" }

VIEW_KEYWORDS ==
  << [view |-> "front",       keywords |-> << <<"f","r","o","n","t">> >>],
     [view |-> "back",        keywords |-> << <<"b","a","c","k">> >>],
     [view |-> "side",        keywords |-> << <<"s","i","d","e">> >>],
     [view |-> "bottom",      keywords |-> << <<"b","o","t","t","o","m">>,
                                              <<"b","a","s","e">> >>],
     [view |-> "top",         keywords |-> << <<"t","o","p">> >>],
     [view |-> "interior",    keywords |-> << <<"i","n","t","e","r","i","o","r">>,
                                              <<"i","n","s","i","d","e">>,
                                              <<"l","i","n","i","n","g">> >>],
     [view |-> "logo_stamp",  keywords |-> << <<"s","t","a","m","p">>,
                                              <<"l","o","g","o">>,
                                              <<"h","e","a","t">>,
                                              <<"t","a","g">>,
                                              <<"l","a","b","e","l">> >>],
     [view |-> "hardware",    keywords |-> << <<"z","i","p">>,
                                              <<"z","i","p","p","e","r">>,
                                              <<"p","u","l","l">>,
                                              <<"l","o","c","k">>,
                                              <<"c","l","a","s","p">> >>],
     [view |-> "handle_base", keywords |-> << <<"h","a","n","d","l","e">>,
                                              <<"s","t","r","a","p">>,
                                              <<"b","a","s","e">> >>],
     [view |-> "stitching",   keywords |-> << <<"s","t","i","t","c","h">>,
                                              <<"s","e","a","m">> >>] >>

\* f.size < 60_000
LowQualityBytes == 60000

\* file.size < 80_000
SerialClearBytes == 80000

\* multer limits
UploadMaxFiles == 10

UploadMaxFileSize == 10 * 1024 * 1024

(***************************************************************************)
(* Helper functions                                                        *)
(***************************************************************************)
normalize(name) ==
  Call(toLowerCase(name), LAMBDA lower : ReplaceWhitespaceRuns(lower))

RECURSIVE FirstKeywordView(_, _)
FirstKeywordView(n, k) ==
  IF k > Len(VIEW_KEYWORDS) THEN Null
  ELSE IF \E q \in 1..Len(VIEW_KEYWORDS[k].keywords) :
            includes(n, VIEW_KEYWORDS[k].keywords[q])
       THEN VIEW_KEYWORDS[k].view
       ELSE FirstKeywordView(n, k + 1)

\* Variant that lets the last matching entry of the table win.
RECURSIVE LastKeywordView(_, _)
LastKeywordView(n, k) ==
  IF k < 1 THEN Null
  ELSE IF \E q \in 1..Len(VIEW_KEYWORDS[k].keywords) :
            includes(n, VIEW_KEYWORDS[k].keywords[q])
       THEN VIEW_KEYWORDS[k].view
       ELSE LastKeywordView(n, k - 1)

classifyViewLastMatch(filename) ==
  Call(normalize(filename), LAMBDA n : LastKeywordView(n, Len(VIEW_KEYWORDS)))

classifyView(filename) ==
  Call(normalize(filename), LAMBDA n : FirstKeywordView(n, 1))

isLikelySerialView(view) == view = "serial" \/ view = "logo_stamp"

assessSerialImage(file) ==
  IF file.size < SerialClearBytes
  THEN [present |-> TRUE, clear |-> FALSE]
  ELSE [present |-> TRUE, clear |-> TRUE]

(***************************************************************************)
(* Plain objects: property write and read                                  *)
(***************************************************************************)
\* {} : an object with no own property
EmptyObject == << >>

\* obj[key] = value, for a string value.  The key "__proto__" is the accessor
\* of Object.prototype: its setter ignores a value that is not an object, and
\* no own property is created.
SetProperty(obj, key, value) ==
  IF key = proto_name THEN obj
  ELSE [x \in (DOMAIN obj) \cup {key} |-> IF x = key THEN value ELSE obj[x]]

\* obj[key]: the own property, else what Object.prototype holds under that
\* name, else undefined.
GetProperty(obj, key) ==
  IF key \in DOMAIN obj THEN obj[key]
  ELSE IF key \in ObjectPrototypeKeys THEN InheritedObject
  ELSE Null

(***************************************************************************)
(* parseLabels                                                             *)
(* The labels field is a text field of the multipart body; JSON.parse is   *)
(* the runtime's, and a field is given by what JSON.parse makes of it:     *)
(* "invalid" (SyntaxError), "array", "null", "number", or "object" with    *)
(* its entries in Object.entries order.                                    *)
(***************************************************************************)
RECURSIVE CleanEntries(_, _, _)
CleanEntries(entries, k, clean) ==
  IF k > Len(entries) THEN clean
  ELSE CleanEntries(entries, k + 1,
         IF entries[k].value \in ALLOWED_VIEWS
         THEN SetProperty(clean, entries[k].key, entries[k].value)
         ELSE clean)

parseLabels(body) ==
  IF body.labels.kind = "absent" THEN EmptyObject
  ELSE IF body.labels.parsed.type = "invalid" THEN EmptyObject  \* catch
  ELSE IF body.labels.parsed.type = "number" THEN EmptyObject   \* typeof
  ELSE IF body.labels.parsed.type = "array" THEN EmptyObject    \* Array.isArray
  ELSE IF body.labels.parsed.type = "null" THEN EmptyObject     \* Object.entries(null) throws
  ELSE CleanEntries(body.labels.parsed.entries, 1, EmptyObject)

(***************************************************************************)
(* Brand inference                                                         *)
(***************************************************************************)
inferBrandFromFilename(name) ==
  Call(toLowerCase(name), LAMBDA n :
    IF includes(n, <<"l","v">>) \/ includes(n, <<"l","o","u","i","s">>)
      THEN "louis_vuitton"
    ELSE IF includes(n, <<"g","u","c","c","i">>) THEN "gucci"
    ELSE IF includes(n, <<"c","h","a","n","e","l">>) THEN "chanel"
    ELSE IF includes(n, <<"p","r","a","d","a">>) THEN "prada"
    ELSE Null)

\* hits[b] = (hits[b] || 0) + 1; hits is kept as its entries in insertion
\* order, which is the order Object.entries returns.
AddHit(hits, b) ==
  Call2(hits, b, LAMBDA h, brand :
    IF \E k \in 1..Len(h) : h[k][1] = brand
    THEN [k \in 1..Len(h) |->
            IF h[k][1] = brand THEN << brand, h[k][2] + 1 >> ELSE h[k]]
    ELSE Append(h, << brand, 1 >>))

RECURSIVE CountHits(_, _, _)
CountHits(files, k, hits) ==
  IF k > Len(files) THEN hits
  ELSE LET b == inferBrandFromFilename(files[k].originalname) IN
       CountHits(files, k + 1, IF b # Null THEN AddHit(hits, b) ELSE hits)

\* entries.sort((a, b) => b[1] - a[1]): stable, descending by count
InsertByCount(sorted, e) ==
  Call2(sorted, e, LAMBDA s, entry :
    Call(Cardinality({ k \in 1..Len(s) : s[k][2] >= entry[2] }), LAMBDA pos :
      SubSeq(s, 1, pos) \o << entry >> \o SubSeq(s, pos + 1, Len(s))))

RECURSIVE SortByCount(_, _, _)
SortByCount(entries, k, sorted) ==
  IF k > Len(entries) THEN sorted
  ELSE SortByCount(entries, k + 1, InsertByCount(sorted, entries[k]))

\* Variant without the sort: the first brand hit is taken, whatever its count.
inferBrandNoSort(files) ==
  Call(CountHits(files, 1, << >>), LAMBDA entries :
    IF entries = << >> THEN Null
    ELSE IF entries[1][2] >= 2 THEN entries[1][1] ELSE Null)

inferBrand(files) ==
  Call(CountHits(files, 1, << >>), LAMBDA hits :
    Call(SortByCount(hits, 1, << >>), LAMBDA entries :
      IF entries = << >> THEN Null
      ELSE IF entries[1][2] >= 2 THEN entries[1][1] ELSE Null))

(***************************************************************************)
(* Serial format rules                                                     *)
(***************************************************************************)
LVIssue == "LV serial format inconsistent with known date code structures"

GucciIssue == "Gucci serial format inconsistent with typical numeric patterns"

\* Variant that accepts up to seven characters.
checkLVSerialFormatUpToSeven(text) ==
  IF ~ ( /\ Len(text) >= 4
         /\ Len(text) <= 7
         /\ \A k \in 1..Len(text) : IsUpper(text[k]) \/ text[k] \in Digits )
  THEN LVIssue
  ELSE Null

\* /^[A-Z0-9]{4,6}$/
checkLVSerialFormat(text) ==
  IF ~ ( /\ Len(text) >= 4
         /\ Len(text) <= 6
         /\ \A k \in 1..Len(text) : IsUpper(text[k]) \/ text[k] \in Digits )
  THEN LVIssue
  ELSE Null

\* /^\d{8,14}$/
checkGucciSerialFormat(text) ==
  IF ~ ( /\ Len(text) >= 8
         /\ Len(text) <= 14
         /\ \A k \in 1..Len(text) : text[k] \in Digits )
  THEN GucciIssue
  ELSE Null

(***************************************************************************)
(* OCR                                                                     *)
(* What the chat-completions call does is the outcome: it throws (network  *)
(* error, timeout, API error), answers without a choice, or answers with   *)
(* a content string.                                                       *)
(***************************************************************************)
\* Variant without the try/catch: a throw of the call reaches the caller.
extractSerialTextFromImageNoCatch(outcome) ==
  IF outcome.kind = "throws" THEN [threw |-> TRUE, value |-> NoText]
  ELSE IF outcome.kind = "no_choice" THEN [threw |-> FALSE, value |-> NoText]
  ELSE LET t == trim(outcome.content) IN
       [threw |-> FALSE, value |-> IF t = << >> THEN NoText ELSE SomeText(t)]

\* The function's own try/catch turns every throw into null, so it never
\* throws to its caller.
extractSerialTextFromImage(outcome) ==
  IF outcome.kind = "throws" THEN [threw |-> FALSE, value |-> NoText]
  ELSE IF outcome.kind = "no_choice" THEN [threw |-> FALSE, value |-> NoText]
  ELSE LET t == trim(outcome.content) IN
       [threw |-> FALSE, value |-> IF t = << >> THEN NoText ELSE SomeText(t)]

normalizeSerialText(text) ==
  Call(StripNonAlphanumeric(text), LAMBDA kept : toUpperCase(kept))

(***************************************************************************)
(* Result construction (the tail of buildCoreVerdict)                      *)
(***************************************************************************)
ReasonExtracted == "Serial/date code text extracted from image"

ReasonVisible == "Serial/date code visible but text could not be extracted"

ReasonNoSerial == "No serial/date code observed in provided images"

LeadMissing == "Missing or unclear required views"

LeadInconsistent == "Multiple technical inconsistencies detected"

LeadAllPresent == "All required views present; no universal red flags"

LeadServerError == "Server error during verification"

\* "UNKNOWN"
UnknownSerial == <<"U","N","K","N","O","W","N">>

\* A red flag is a fixed text followed by a filename (empty when none).
LowQualityFlag(name) == [text |-> "Low-quality image: ", arg |-> name]

IssueFlag(issue) == [text |-> issue, arg |-> << >>]

\* inferredBrand.replace("_", " ")
BrandDisplayName(brand) ==
  IF brand = "louis_vuitton" THEN "louis vuitton" ELSE brand

PlausibleReason(brand) ==
  "Serial format appears plausible for inferred brand ("
    \o BrandDisplayName(brand) \o ")"

\* for (const req of REQUIRED_VIEWS) if (!views.has(req)) missing_photos.push(req)
MissingPhotos(vs) == SelectSeq(REQUIRED_VIEWS, LAMBDA r : r \notin vs)

\* Variant with "if" in place of "else if": text extracted from an observed
\* serial pushes two reasons.
SerialReasonsNoElse(ns, observed) ==
  (IF Truthy(ns) THEN << ReasonExtracted >> ELSE << >>)
    \o (IF observed THEN << ReasonVisible >> ELSE << ReasonNoSerial >>)

\* the if / else if / else that pushes the serial reason
SerialReasons(ns, observed) ==
  IF Truthy(ns) THEN << ReasonExtracted >>
  ELSE IF observed THEN << ReasonVisible >>
  ELSE << ReasonNoSerial >>

\* Variant without the else: the "plausible" reason is pushed whether or
\* not an issue was flagged.
BrandRuleNoElse(clear, brand, ns) ==
  IF clear /\ brand # Null
  THEN LET serialText == IF Truthy(ns) THEN ns.text ELSE UnknownSerial
           issueLV == IF brand = "louis_vuitton"
                      THEN checkLVSerialFormat(serialText) ELSE Null
           issue == IF brand = "gucci"
                    THEN checkGucciSerialFormat(serialText) ELSE issueLV
       IN [flags |-> IF issue # Null THEN << IssueFlag(issue) >> ELSE << >>,
           reasons |-> << PlausibleReason(brand) >>]
  ELSE [flags |-> << >>, reasons |-> << >>]

\* if (serialClear && inferredBrand) { ... }: the flags and reasons it pushes
BrandRule(clear, brand, ns) ==
  IF clear /\ brand # Null
  THEN LET serialText == IF Truthy(ns) THEN ns.text ELSE UnknownSerial
           issueLV == IF brand = "louis_vuitton"
                      THEN checkLVSerialFormat(serialText) ELSE Null
           issue == IF brand = "gucci"
                    THEN checkGucciSerialFormat(serialText) ELSE issueLV
       IN IF issue # Null
          THEN [flags |-> << IssueFlag(issue) >>, reasons |-> << >>]
          ELSE [flags |-> << >>, reasons |-> << PlausibleReason(brand) >>]
  ELSE [flags |-> << >>, reasons |-> << >>]

\* Variant that tests the red-flag count before the missing views.
DecideFlagsFirst(missing, flags, reasons) ==
  IF Len(flags) >= 3
  THEN [verdict |-> "Likely Not Authentic", confidence |-> 65,
        reasons |-> << LeadInconsistent >> \o reasons,
        missing_photos |-> missing, red_flags |-> flags]
  ELSE IF Len(missing) # 0
  THEN [verdict |-> "Inconclusive", confidence |-> 30,
        reasons |-> << LeadMissing >> \o reasons,
        missing_photos |-> missing, red_flags |-> flags]
  ELSE [verdict |-> "Likely Authentic", confidence |-> 75,
        reasons |-> << LeadAllPresent >> \o reasons,
        missing_photos |-> << >>, red_flags |-> flags]

\* Variant whose threshold is more than three red flags.
DecideMoreThanThree(missing, flags, reasons) ==
  IF Len(missing) # 0
  THEN [verdict |-> "Inconclusive", confidence |-> 30,
        reasons |-> << LeadMissing >> \o reasons,
        missing_photos |-> missing, red_flags |-> flags]
  ELSE IF Len(flags) > 3
  THEN [verdict |-> "Likely Not Authentic", confidence |-> 65,
        reasons |-> << LeadInconsistent >> \o reasons,
        missing_photos |-> << >>, red_flags |-> flags]
  ELSE [verdict |-> "Likely Authentic", confidence |-> 75,
        reasons |-> << LeadAllPresent >> \o reasons,
        missing_photos |-> << >>, red_flags |-> flags]

\* Variant whose threshold is one red flag.
DecideAtOneFlag(missing, flags, reasons) ==
  IF Len(missing) # 0
  THEN [verdict |-> "Inconclusive", confidence |-> 30,
        reasons |-> << LeadMissing >> \o reasons,
        missing_photos |-> missing, red_flags |-> flags]
  ELSE IF Len(flags) >= 1
  THEN [verdict |-> "Likely Not Authentic", confidence |-> 65,
        reasons |-> << LeadInconsistent >> \o reasons,
        missing_photos |-> << >>, red_flags |-> flags]
  ELSE [verdict |-> "Likely Authentic", confidence |-> 75,
        reasons |-> << LeadAllPresent >> \o reasons,
        missing_photos |-> << >>, red_flags |-> flags]

Decide(missing, flags, reasons) ==
  IF Len(missing) # 0
  THEN [verdict |-> "Inconclusive", confidence |-> 30,
        reasons |-> << LeadMissing >> \o reasons,
        missing_photos |-> missing, red_flags |-> flags]
  ELSE IF Len(flags) >= 3
  THEN [verdict |-> "Likely Not Authentic", confidence |-> 65,
        reasons |-> << LeadInconsistent >> \o reasons,
        missing_photos |-> << >>, red_flags |-> flags]
  ELSE [verdict |-> "Likely Authentic", confidence |-> 75,
        reasons |-> << LeadAllPresent >> \o reasons,
        missing_photos |-> << >>, red_flags |-> flags]

\* the catch of the route
ServerErrorResult ==
  [verdict |-> "Inconclusive", confidence |-> 0,
   reasons |-> << LeadServerError >>,
   missing_photos |-> << >>, red_flags |-> << >>]

(***************************************************************************)
(* The loop body's decisions                                               *)
(***************************************************************************)
\* Variant whose threshold includes 60,000 bytes.
IsLowQualityInclusive(f) == f.size <= LowQualityBytes

\* if (f.size < 60_000)
IsLowQuality(f) == f.size < LowQualityBytes

\* labels[f.originalname] || classifyView(f.originalname)
ViewOf(lbls, name) ==
  LET l == GetProperty(lbls, name) IN
  IF l # Null THEN l ELSE classifyView(name)

\* if (assessment.clear && !extractedSerial)
NeedsOcr(assessment, extracted) == assessment.clear /\ ~ Truthy(extracted)

(***************************************************************************)
(* The upload boundary: multer({limits, fileFilter}), upload.array         *)
(***************************************************************************)
\* "image/"
image_slash_prefix == <<"i","m","a","g","e","/">>

fileFilter(file) == startsWith(file.mimetype, image_slash_prefix)

\* Files arrive in order; the first one over a limit or refused by the
\* filter ends the upload with an error.
RECURSIVE FirstUploadError(_, _)
FirstUploadError(fs, k) ==
  IF k > Len(fs) THEN Null
  ELSE IF k > UploadMaxFiles THEN "LIMIT_FILE_COUNT"
  ELSE IF ~ fileFilter(fs[k]) THEN "Invalid file type"
  ELSE IF fs[k].size > UploadMaxFileSize THEN "LIMIT_FILE_SIZE"
  ELSE FirstUploadError(fs, k + 1)

(***************************************************************************)
(* Inputs                                                                  *)
(***************************************************************************)
dot_jpg == <<".","j","p","g">>

front_jpg == <<"f","r","o","n","t">> \o dot_jpg

back_jpg == <<"b","a","c","k">> \o dot_jpg

side_jpg == <<"s","i","d","e">> \o dot_jpg

bottom_jpg == <<"b","o","t","t","o","m">> \o dot_jpg

top_jpg == <<"t","o","p">> \o dot_jpg

interior_jpg == <<"i","n","t","e","r","i","o","r">> \o dot_jpg

stamp_jpg == <<"s","t","a","m","p">> \o dot_jpg

zipper_jpg == <<"z","i","p","p","e","r">> \o dot_jpg

handle_jpg == <<"h","a","n","d","l","e">> \o dot_jpg

stitch_jpg == <<"s","t","i","t","c","h">> \o dot_jpg

lv_front_jpg == <<"l","v","_","f","r","o","n","t">> \o dot_jpg

gucci_back_jpg == <<"g","u","c","c","i","_","b","a","c","k">> \o dot_jpg

\* "LV Tag.jpg"
LV_Tag_jpg == <<"L","V"," ","T","a","g">> \o dot_jpg

gucci_label_jpg == <<"g","u","c","c","i","_","l","a","b","e","l">> \o dot_jpg

prada_chanel_logo_jpg ==
  <<"p","r","a","d","a","_","c","h","a","n","e","l","_","l","o","g","o">> \o dot_jpg

img1_jpg == <<"i","m","g","1">> \o dot_jpg

notes_txt == <<"n","o","t","e","s",".","t","x","t">>

huge_png == <<"h","u","g","e",".","p","n","g">>

image_jpeg == <<"i","m","a","g","e","/","j","p","e","g">>

image_png == <<"i","m","a","g","e","/","p","n","g">>

text_plain == <<"t","e","x","t","/","p","l","a","i","n">>

File(name, size, mimetype) ==
  [originalname |-> name, size |-> size, mimetype |-> mimetype]

\* Ten files named after the ten required views, 200,000 bytes each.
CompleteBatch ==
  << File(front_jpg, 200000, image_jpeg),  File(back_jpg, 200000, image_jpeg),
     File(side_jpg, 200000, image_jpeg),   File(bottom_jpg, 200000, image_jpeg),
     File(top_jpg, 200000, image_jpeg),    File(interior_jpg, 200000, image_jpeg),
     File(stamp_jpg, 200000, image_jpeg),  File(zipper_jpg, 200000, image_jpeg),
     File(handle_jpg, 200000, image_jpeg), File(stitch_jpg, 200000, image_jpeg) >>

\* Eight files, two of them carrying a brand hint; no logo_stamp, no
\* handle_base, and the stitching photo one byte under the quality threshold.
BrandedBatch ==
  << File(lv_front_jpg, 200000, image_jpeg), File(gucci_back_jpg, 200000, image_jpeg),
     File(side_jpg, 120000, image_jpeg),     File(bottom_jpg, 120000, image_jpeg),
     File(top_jpg, 120000, image_jpeg),      File(interior_jpg, 120000, image_jpeg),
     File(zipper_jpg, 60000, image_jpeg),    File(stitch_jpg, 59999, image_jpeg) >>

BaseBatches == { << >>, CompleteBatch, BrandedBatch }

\* Ten files that show every required view, two of them carrying a
\* louis_vuitton hint, the logo_stamp one clear.
BrandedCompleteBatch ==
  << File(lv_front_jpg, 200000, image_jpeg), File(back_jpg, 200000, image_jpeg),
     File(side_jpg, 200000, image_jpeg),     File(bottom_jpg, 200000, image_jpeg),
     File(top_jpg, 200000, image_jpeg),      File(interior_jpg, 200000, image_jpeg),
     File(LV_Tag_jpg, 80000, image_jpeg),    File(zipper_jpg, 200000, image_jpeg),
     File(handle_jpg, 200000, image_jpeg),   File(stitch_jpg, 200000, image_jpeg) >>

\* Base batches of the requests
RouteBatches == BaseBatches \cup { BrandedCompleteBatch }

\* Files appended to a base batch.
CorePool ==
  { File(stamp_jpg, 79999, image_jpeg),
    File(LV_Tag_jpg, 59999, image_jpeg),
    File(LV_Tag_jpg, 80000, image_jpeg),
    File(gucci_label_jpg, 80000, image_jpeg),
    File(prada_chanel_logo_jpg, 80000, image_png),
    File(img1_jpg, 200000, image_jpeg),
    File(proto_name, 200000, image_jpeg) }

\* Files only the upload boundary tells apart.
UploadPool ==
  CorePool \cup
  { File(notes_txt, 1000, text_plain),
    File(huge_png, UploadMaxFileSize + 1, image_png) }

\* The most files appended to a base batch.
MaxExtra == 2

Extras(pool) == UNION { [1..n -> pool] : n \in 0..MaxExtra }

\* The labels field of the request body
NoLabels == [kind |-> "absent", parsed |-> [type |-> "invalid", entries |-> << >>]]

LabelsObject ==
  [kind |-> "string",
   parsed |-> [type |-> "object",
               entries |-> << [key |-> img1_jpg,   value |-> "serial"],
                              [key |-> stamp_jpg,  value |-> "front"],
                              [key |-> zipper_jpg, value |-> "bogus"],
                              [key |-> LV_Tag_jpg, value |-> "serial"],
                              [key |-> gucci_label_jpg, value |-> "Serial"],
                              [key |-> proto_name, value |-> "front"] >>]]

LabelsMalformed ==
  [kind |-> "string", parsed |-> [type |-> "invalid", entries |-> << >>]]

LabelFields == { NoLabels, LabelsObject, LabelsMalformed }

\* An OCR call that has not settled
Pending == [kind |-> "pending", content |-> << >>]

\* What one OCR call can do
OcrOutcomes ==
  { [kind |-> "throws",    content |-> << >>],
    [kind |-> "no_choice", content |-> << >>],
    [kind |-> "content",   content |-> <<" "," ">>],
    [kind |-> "content",   content |-> <<"-","-">>],
    [kind |-> "content",   content |-> <<" ","a","b","-","1","2"," ">>],
    [kind |-> "content",   content |-> <<"1","2","3","4","5","6","7","8">>] }

\* POST /verify requests
Requests ==
  { [files |-> b \o e, body |-> [labels |-> l]] :
      b \in RouteBatches, e \in Extras(UploadPool), l \in LabelFields }

\* Calls of buildCoreVerdict(files, parseLabels(body)), with no upload limit
CoreCalls ==
  { [files |-> b \o e, body |-> [labels |-> l]] :
      b \in BaseBatches, e \in Extras(CorePool), l \in { NoLabels, LabelsObject } }

(***************************************************************************)
(* State of one request                                                    *)
(***************************************************************************)
VARIABLES
  pc,               \* where the request is
  request,          \* what the client sent: files in upload order, body
  files,            \* req.files
  uploadError,      \* the error multer passed to next(err), or Null
  labels,           \* parseLabels(req)
  inferredBrand,    \* buildCoreVerdict's locals ...
  i,                \* index of the file the for loop is at
  views,
  red_flags,
  serialObserved,
  serialClear,
  extractedSerial,
  normalizedSerial,
  ocrLog,           \* history: each OCR call, the file's index and the outcome
  result,           \* what buildCoreVerdict returned
  response          \* what was sent to the client

vars ==
  << pc, request, files, uploadError, labels, inferredBrand, i, views,
     red_flags, serialObserved, serialClear, extractedSerial,
     normalizedSerial, ocrLog, result, response >>

NoResult ==
  [verdict |-> Null, confidence |-> 0, reasons |-> << >>,
   missing_photos |-> << >>, red_flags |-> << >>]

NoResponse == [kind |-> "none", status |-> 0, body |-> NoResult]

LocalsInit ==
  /\ inferredBrand = Null
  /\ i = 1
  /\ views = {}
  /\ red_flags = << >>
  /\ serialObserved = FALSE
  /\ serialClear = FALSE
  /\ extractedSerial = NoText
  /\ normalizedSerial = NoText
  /\ ocrLog = << >>
  /\ result = NoResult
  /\ response = NoResponse

\* A request has arrived at POST /verify.
Init ==
  /\ pc = "received"
  /\ request \in Requests
  /\ files = << >>
  /\ uploadError = Null
  /\ labels = EmptyObject
  /\ LocalsInit

\* buildCoreVerdict is about to be called on any batch.
CoreInit ==
  /\ pc = "core"
  /\ request \in CoreCalls
  /\ files = request.files
  /\ uploadError = Null
  /\ labels = parseLabels(request.body)
  /\ LocalsInit

(***************************************************************************)
(* Actions                                                                 *)
(***************************************************************************)
\* upload.array("images", 10): the files pass, or multer calls next(err).
UploadArray ==
  /\ pc = "received"
  /\ LET err == FirstUploadError(request.files, 1) IN
     IF err # Null
     THEN /\ uploadError' = err
          /\ pc' = "error"
          /\ files' = files
     ELSE /\ files' = request.files
          /\ pc' = "handler"
          /\ uploadError' = uploadError
  /\ UNCHANGED << request, labels, inferredBrand, i, views, red_flags,
                  serialObserved, serialClear, extractedSerial,
                  normalizedSerial, ocrLog, result, response >>

\* The app registers no error-handling middleware: next(err) ends in
\* Express's default handler, which answers 500 with an HTML error page.
DefaultErrorHandler ==
  /\ pc = "error"
  /\ response' = [kind |-> "html_error_page", status |-> 500, body |-> NoResult]
  /\ pc' = "done"
  /\ UNCHANGED << request, files, uploadError, labels, inferredBrand, i, views,
                  red_flags, serialObserved, serialClear, extractedSerial,
                  normalizedSerial, ocrLog, result >>

\* The route handler up to the call: const labels = parseLabels(req)
VerifyHandler ==
  /\ pc = "handler"
  /\ labels' = parseLabels(request.body)
  /\ pc' = "core"
  /\ UNCHANGED << request, files, uploadError, inferredBrand, i, views,
                  red_flags, serialObserved, serialClear, extractedSerial,
                  normalizedSerial, ocrLog, result, response >>

\* buildCoreVerdict's entry: the locals, and inferBrand(files)
CoreEntry ==
  /\ pc = "core"
  /\ inferredBrand' = inferBrand(files)
  /\ i' = 1
  /\ views' = {}
  /\ red_flags' = << >>
  /\ serialObserved' = FALSE
  /\ serialClear' = FALSE
  /\ extractedSerial' = NoText
  /\ normalizedSerial' = NoText
  /\ pc' = "loop"
  /\ UNCHANGED << request, files, uploadError, labels, ocrLog, result, response >>

\* One iteration of for (const f of files), up to its await if it has one
LoopStep ==
  /\ pc = "loop"
  /\ i <= Len(files)
  /\ LET f == files[i]
         view == ViewOf(labels, f.originalname)
         assessment == assessSerialImage(f)
     IN
     IF IsLowQuality(f)
     THEN /\ red_flags' = Append(red_flags, LowQualityFlag(f.originalname))
          /\ i' = i + 1
          /\ UNCHANGED << pc, views, serialObserved, serialClear, ocrLog >>
     ELSE IF view = Null
     THEN /\ i' = i + 1
          /\ UNCHANGED << pc, views, red_flags, serialObserved, serialClear, ocrLog >>
     ELSE /\ views' = views \cup { view }
          /\ red_flags' = red_flags
          /\ IF isLikelySerialView(view)
             THEN /\ serialObserved' = (serialObserved \/ assessment.present)
                  /\ serialClear' = (serialClear \/ assessment.clear)
                  /\ IF NeedsOcr(assessment, extractedSerial)
                     THEN /\ pc' = "ocr"
                          /\ ocrLog' = Append(ocrLog, [file |-> i, outcome |-> Pending])
                          /\ i' = i
                     ELSE /\ i' = i + 1
                          /\ UNCHANGED << pc, ocrLog >>
             ELSE /\ i' = i + 1
                  /\ UNCHANGED << pc, serialObserved, serialClear, ocrLog >>
  /\ UNCHANGED << request, files, uploadError, labels, inferredBrand,
                  extractedSerial, normalizedSerial, result, response >>

\* The awaited extractSerialTextFromImage(f.buffer) settles.  Were it to
\* throw, buildCoreVerdict would reject and the route's catch would answer.
OcrReturn ==
  /\ pc = "ocr"
  /\ \E outcome \in OcrOutcomes :
       LET r == extractSerialTextFromImage(outcome) IN
       IF r.threw
       THEN /\ response' = [kind |-> "json", status |-> 200, body |-> ServerErrorResult]
            /\ pc' = "done"
            /\ ocrLog' = [ocrLog EXCEPT ![Len(ocrLog)].outcome = outcome]
            /\ UNCHANGED << i, extractedSerial, normalizedSerial >>
       ELSE /\ IF Truthy(r.value)
               THEN /\ extractedSerial' = r.value
                    /\ normalizedSerial' = SomeText(normalizeSerialText(r.value.text))
               ELSE UNCHANGED << extractedSerial, normalizedSerial >>
            /\ i' = i + 1
            /\ pc' = "loop"
            /\ response' = response
            /\ ocrLog' = [ocrLog EXCEPT ![Len(ocrLog)].outcome = outcome]
  /\ UNCHANGED << request, files, uploadError, labels, inferredBrand, views,
                  red_flags, serialObserved, serialClear, result >>

\* After the loop: missing_photos, the serial reason, the brand rule, return
Aggregate ==
  /\ pc = "loop"
  /\ i > Len(files)
  /\ LET rule == BrandRule(serialClear, inferredBrand, normalizedSerial) IN
     result' = Decide(MissingPhotos(views),
                      red_flags \o rule.flags,
                      SerialReasons(normalizedSerial, serialObserved) \o rule.reasons)
  /\ pc' = "returned"
  /\ UNCHANGED << request, files, uploadError, labels, inferredBrand, i, views,
                  red_flags, serialObserved, serialClear, extractedSerial,
                  normalizedSerial, ocrLog, response >>

\* res.json(result)
SendResult ==
  /\ pc = "returned"
  /\ response' = [kind |-> "json", status |-> 200, body |-> result]
  /\ pc' = "done"
  /\ UNCHANGED << request, files, uploadError, labels, inferredBrand, i, views,
                  red_flags, serialObserved, serialClear, extractedSerial,
                  normalizedSerial, ocrLog, result >>

Next ==
  \/ UploadArray
  \/ DefaultErrorHandler
  \/ VerifyHandler
  \/ CoreEntry
  \/ LoopStep
  \/ OcrReturn
  \/ Aggregate
  \/ SendResult

CoreNext ==
  \/ CoreEntry
  \/ LoopStep
  \/ OcrReturn
  \/ Aggregate

\* One POST /verify request
Spec == Init /\ [][Next]_vars

\* One call of buildCoreVerdict
CoreSpec == CoreInit /\ [][CoreNext]_vars

\* The request under the event loop's scheduling: every enabled step is
\* taken, and every OCR call settles.
FairSpec == Init /\ [][Next]_vars /\ WF_vars(Next)

(***************************************************************************)
(* Short batches: calls of buildCoreVerdict on a few files whose names     *)
(* overlap several table entries or hint at a single brand                 *)
(***************************************************************************)
handle_base_jpg == <<"h","a","n","d","l","e","_","b","a","s","e">> \o dot_jpg

\* "Handle  Base.JPG": upper case, and a run of two spaces
Handle_Base_JPG ==
  <<"H","a","n","d","l","e"," "," ","B","a","s","e",".","J","P","G">>

\* "top handle.jpg"
top_handle_jpg == <<"t","o","p"," ","h","a","n","d","l","e">> \o dot_jpg

\* "prada tag.jpg"
prada_tag_jpg == <<"p","r","a","d","a"," ","t","a","g">> \o dot_jpg

ShortPool ==
  { File(handle_base_jpg, 200000, image_jpeg),
    File(Handle_Base_JPG, 60000, image_jpeg),
    File(top_handle_jpg, 200000, image_jpeg),
    File(img1_jpg, 200000, image_jpeg),
    File(prada_tag_jpg, 80000, image_jpeg),
    File(gucci_label_jpg, 80000, image_jpeg),
    File(LV_Tag_jpg, 80000, image_jpeg),
    File(prada_chanel_logo_jpg, 80000, image_png),
    File(stamp_jpg, 79999, image_jpeg) }

ShortCalls ==
  { [files |-> e, body |-> [labels |-> l]] :
      e \in Extras(ShortPool), l \in { NoLabels, LabelsObject } }

ShortInit ==
  /\ pc = "core"
  /\ request \in ShortCalls
  /\ files = request.files
  /\ uploadError = Null
  /\ labels = parseLabels(request.body)
  /\ LocalsInit

\* One call of buildCoreVerdict on a short batch
ShortSpec == ShortInit /\ [][CoreNext]_vars

(***************************************************************************)
(* Vocabulary of the properties                                            *)
(***************************************************************************)
RequiredSet == { REQUIRED_VIEWS[k] : k \in 1..Len(REQUIRED_VIEWS) }

\* Required views that are not in the views-seen set
Unseen == RequiredSet \ views

\* buildCoreVerdict has returned
HasResult == result # NoResult

\* How often x occurs in the sequence s
Occurrences(s, x) == Cardinality({ k \in 1..Len(s) : s[k] = x })

\* How many members of the sequence s are in the set S
CountIn(s, S) == Cardinality({ k \in 1..Len(s) : s[k] \in S })

\* Indices of the files the loop has dealt with (the one awaiting its OCR
\* call has been classified already)
Processed ==
  { k \in 1..Len(files) : k < i \/ (k = i /\ pc = "ocr") }

SerialReasonTexts == { ReasonExtracted, ReasonVisible, ReasonNoSerial }

Brands == { "louis_vuitton", "gucci", "chanel", "prada" }

FormatFlags == { IssueFlag(LVIssue), IssueFlag(GucciIssue) }

PlausibleReasons == { PlausibleReason(b) : b \in Brands }

(***************************************************************************)
(* C1                                                                      *)
(***************************************************************************)
\* C1: whenever a required view is not in the views-seen set, the result is
\* Inconclusive with confidence exactly 30, its reasons start with "Missing
\* or unclear required views", and missing_photos lists exactly the required
\* views that were not seen, each once, and none that was seen.
C1_MissingViewsInconclusive ==
  (HasResult /\ Unseen # {}) =>
    /\ result.verdict = "Inconclusive"
    /\ result.confidence = 30
    /\ Head(result.reasons) = LeadMissing
    /\ \A k \in 1..Len(result.missing_photos) :
         result.missing_photos[k] \in RequiredSet
    /\ \A v \in RequiredSet :
         Occurrences(result.missing_photos, v) = IF v \in Unseen THEN 1 ELSE 0

\* A result for a batch that showed some required views and not others
C1_Witness ==
  /\ HasResult
  /\ Unseen # {}
  /\ views \cap RequiredSet # {}
  /\ Len(result.red_flags) >= 3

(***************************************************************************)
(* C2                                                                      *)
(***************************************************************************)
\* C2: when all ten required views are seen, the result is Likely Not
\* Authentic with confidence 65 exactly when red_flags has three or more
\* entries, and Likely Authentic with confidence 75 otherwise, with an empty
\* missing_photos either way; when a required view is missing the result is
\* never Likely Not Authentic.
C2_CompleteCoverageVerdict ==
  HasResult =>
    /\ Unseen = {} =>
         /\ Len(result.red_flags) >= 3 =>
              /\ result.verdict = "Likely Not Authentic"
              /\ result.confidence = 65
         /\ Len(result.red_flags) < 3 =>
              /\ result.verdict = "Likely Authentic"
              /\ result.confidence = 75
         /\ result.missing_photos = << >>
    /\ Unseen # {} => result.verdict # "Likely Not Authentic"

\* A complete batch with exactly three red flags, answered Likely Not Authentic
C2_Witness ==
  /\ HasResult
  /\ Unseen = {}
  /\ Len(result.red_flags) = 3
  /\ result.verdict = "Likely Not Authentic"

(***************************************************************************)
(* C3                                                                      *)
(***************************************************************************)
\* Indices of the images whose view is serial-bearing and whose clarity
\* assessment is clear
ClearSerialImages ==
  { k \in 1..Len(files) :
      /\ files[k].size >= 60000
      /\ isLikelySerialView(ViewOf(labels, files[k].originalname))
      /\ files[k].size >= 80000 }

\* C3: during one request the OCR capability is called at most once, and
\* only for the first image in upload order that is serial-bearing and clear.
C3_OcrAtMostOnce ==
  /\ Len(ocrLog) <= 1
  /\ \A c \in 1..Len(ocrLog) :
       /\ ocrLog[c].file \in ClearSerialImages
       /\ \A k \in ClearSerialImages : ocrLog[c].file <= k

(***************************************************************************)
(* C4                                                                      *)
(***************************************************************************)
\* C4: every result holds exactly one of the three serial reason strings.
C4_ExactlyOneSerialReason ==
  HasResult => CountIn(result.reasons, SerialReasonTexts) = 1

\* A result after an OCR call that gave text: the serial was both observed
\* and extracted, and one reason reports it
C4_Witness ==
  /\ HasResult
  /\ serialObserved
  /\ Truthy(normalizedSerial)
  /\ Occurrences(result.reasons, ReasonExtracted) = 1

(***************************************************************************)
(* C5                                                                      *)
(***************************************************************************)
WellFormedVerdictResult(r) ==
  /\ r.verdict \in { "Likely Authentic", "Likely Not Authentic", "Inconclusive" }
  /\ r.confidence \in 0..100
  /\ Len(r.reasons) >= 1

\* C5: every request ends with a well-formed VerdictResult response, and a
\* request rejected at the upload boundary gets Inconclusive, confidence 0.
C5_AlwaysVerdictResult ==
  pc = "done" =>
    /\ response.kind = "json"
    /\ WellFormedVerdictResult(response.body)
    /\ uploadError # Null =>
         /\ response.body.verdict = "Inconclusive"
         /\ response.body.confidence = 0

(***************************************************************************)
(* C6                                                                      *)
(***************************************************************************)
AggregatorLeads == { LeadMissing, LeadInconsistent, LeadAllPresent }

\* An OCR call that threw, timed out, or answered nothing or blank text
FailedOutcome(o) ==
  \/ o.kind = "throws"
  \/ o.kind = "no_choice"
  \/ (o.kind = "content" /\ \A k \in 1..Len(o.content) : o.content[k] \in Whitespace)

AnsweredByAggregator ==
  /\ pc = "done"
  /\ response.kind = "json"
  /\ response.body = result
  /\ HasResult
  /\ Head(result.reasons) \in AggregatorLeads

\* C6: with every OCR call settling, a request that reaches the handler is
\* eventually answered with the aggregator's verdict; an OCR call that fails
\* or returns empty text leaves no text extracted, and no response is the
\* "Server error during verification" result.
C6_OcrNeverFailsRequest ==
  /\ (pc = "handler") ~> AnsweredByAggregator
  /\ [](response.body # ServerErrorResult)
  /\ []((\A c \in 1..Len(ocrLog) : FailedOutcome(ocrLog[c].outcome))
          => (extractedSerial = NoText /\ normalizedSerial = NoText))

\* A request answered by the aggregator although its OCR call threw
C6_Witness ==
  /\ AnsweredByAggregator
  /\ \E c \in 1..Len(ocrLog) : ocrLog[c].outcome.kind = "throws"
  /\ ReasonVisible = result.reasons[2]

(***************************************************************************)
(* C7                                                                      *)
(***************************************************************************)
LowQualityFlags ==
  { k \in 1..Len(red_flags) : red_flags[k].text = "Low-quality image: " }

\* C7: every processed image below 60,000 bytes has added exactly one
\* "Low-quality image: <filename>" red flag, and the step that processes it
\* adds nothing to the views-seen set, labelled or not; the step that
\* processes an image of 60,000 bytes or more adds no flag.
C7_LowQualityBoundary ==
  /\ [](/\ \A k \in Processed :
            Occurrences(red_flags, LowQualityFlag(files[k].originalname)) =
              Cardinality({ j \in Processed :
                              /\ files[j].originalname = files[k].originalname
                              /\ files[j].size <= 59999 })
        /\ Cardinality(LowQualityFlags) =
            Cardinality({ j \in Processed : files[j].size <= 59999 }))
  /\ [][(pc = "loop" /\ i <= Len(files)) =>
         IF files[i].size <= 59999
         THEN /\ views' = views
              /\ red_flags' =
                   Append(red_flags, LowQualityFlag(files[i].originalname))
         ELSE red_flags' = red_flags]_vars

\* A labelled image of 59,999 bytes was flagged and its view not counted,
\* and an image of exactly 60,000 bytes was counted without a flag
C7_Witness ==
  /\ HasResult
  /\ \E k \in 1..Len(files) :
       /\ files[k].size = 59999
       /\ files[k].originalname \in DOMAIN labels
       /\ labels[files[k].originalname] \notin views
       /\ Occurrences(red_flags, LowQualityFlag(files[k].originalname)) = 1
  /\ \E k \in 1..Len(files) :
       /\ files[k].size = 60000
       /\ classifyView(files[k].originalname) \in views
       /\ Occurrences(red_flags, LowQualityFlag(files[k].originalname)) = 0

(***************************************************************************)
(* C8                                                                      *)
(***************************************************************************)
\* The entries of the request's labels object (none when the field is
\* absent or is not a JSON object)
LabelEntries ==
  IF request.body.labels.kind = "string"
       /\ request.body.labels.parsed.type = "object"
  THEN request.body.labels.parsed.entries
  ELSE << >>

\* The ViewLabel members the request labels this filename with
ValidLabelsOf(name) ==
  { LabelEntries[k].value :
      k \in { j \in 1..Len(LabelEntries) :
                /\ LabelEntries[j].key = name
                /\ LabelEntries[j].value \in ALLOWED_VIEWS } }

HasLabelEntry(name) ==
  \E k \in 1..Len(LabelEntries) : LabelEntries[k].key = name

\* C8: a counted file whose exact filename is labelled with a member of the
\* ViewLabel enumeration is assigned that label; a file whose label entry is
\* not in the enumeration is assigned its keyword classification.
C8_ExplicitLabelsWin ==
  \A k \in Processed :
    files[k].size >= 60000 =>
      LET name == files[k].originalname IN
      /\ \A l \in ValidLabelsOf(name) : l \in views
      /\ (HasLabelEntry(name) /\ ValidLabelsOf(name) = {}
            /\ classifyView(name) # Null)
           => classifyView(name) \in views

(***************************************************************************)
(* C9                                                                      *)
(***************************************************************************)
BrandOrder == << "louis_vuitton", "gucci", "chanel", "prada" >>

BrandHints(b) ==
  IF b = "louis_vuitton" THEN { <<"l","v">>, <<"l","o","u","i","s">> }
  ELSE IF b = "gucci" THEN { <<"g","u","c","c","i">> }
  ELSE IF b = "chanel" THEN { <<"c","h","a","n","e","l">> }
  ELSE { <<"p","r","a","d","a">> }

HintsAt(name, b) ==
  Call(toLowerCase(name), LAMBDA n : \E h \in BrandHints(b) : includes(n, h))

\* The file's one hit goes to the first brand, in BrandOrder, it hints at
HitsBrand(name, b) ==
  \E k \in 1..Len(BrandOrder) :
    /\ BrandOrder[k] = b
    /\ HintsAt(name, b)
    /\ \A j \in 1..(k - 1) : ~ HintsAt(name, BrandOrder[j])

HitCount(b) ==
  Cardinality({ k \in 1..Len(files) : HitsBrand(files[k].originalname, b) })

\* C9: the brand inferred at entry, if any, has the highest hit count of the
\* batch and at least two hits; the brand is unknown when no brand has two
\* hits, and known when one has.
C9_BrandNeedsTwoHits ==
  (pc = "loop" /\ i = 1) =>
    \A count \in { [b \in Brands |-> HitCount(b)] } :
    /\ inferredBrand # Null =>
         /\ inferredBrand \in Brands
         /\ count[inferredBrand] >= 2
         /\ \A b \in Brands : count[b] <= count[inferredBrand]
    /\ (\A b \in Brands : count[b] <= 1) => inferredBrand = Null
    /\ (\E b \in Brands : count[b] >= 2) => inferredBrand # Null

\* gucci wins with two hits over louis_vuitton, which was hit first, once
C9_Witness ==
  /\ pc = "loop"
  /\ i = 1
  /\ inferredBrand = "gucci"
  /\ HitCount("louis_vuitton") = 1
  /\ HitsBrand(files[1].originalname, "louis_vuitton")

(***************************************************************************)
(* C10                                                                     *)
(***************************************************************************)
RuleApplies == inferredBrand # Null /\ ClearSerialImages # {}

\* C10: the serial-format rule adds exactly one of a brand's format red flag
\* and the "plausible" reason when a brand is resolved and a clear
\* serial-bearing image was seen, and neither otherwise; the flag is the
\* resolved brand's own.
C10_FormatRuleOneOutcome ==
  HasResult =>
    /\ CountIn(result.red_flags, FormatFlags)
         + CountIn(result.reasons, PlausibleReasons)
       = IF RuleApplies THEN 1 ELSE 0
    /\ Occurrences(result.red_flags, IssueFlag(LVIssue)) >= 1
         => inferredBrand = "louis_vuitton"
    /\ Occurrences(result.red_flags, IssueFlag(GucciIssue)) >= 1
         => inferredBrand = "gucci"
    /\ \A b \in Brands :
         Occurrences(result.reasons, PlausibleReason(b)) >= 1 => inferredBrand = b

\* The rule ran for gucci on extracted text and flagged it
C10_Witness ==
  /\ HasResult
  /\ inferredBrand = "gucci"
  /\ Truthy(normalizedSerial)
  /\ Occurrences(result.red_flags, IssueFlag(GucciIssue)) = 1
  /\ CountIn(result.reasons, PlausibleReasons) = 0

(***************************************************************************)
(* C11                                                                     *)
(***************************************************************************)
\* Indices of the images whose view, by explicit label or keyword match, is
\* serial-bearing, whatever their byte size
SerialBearingImages ==
  { k \in 1..Len(files) :
      isLikelySerialView(ViewOf(labels, files[k].originalname)) }

\* C11: a batch that holds an image whose view is serial or logo_stamp never
\* gets the reason "No serial/date code observed in provided images",
\* whatever the byte size of that image.
C11_SerialPresenceUnconditional ==
  (HasResult /\ SerialBearingImages # {}) =>
    Occurrences(result.reasons, ReasonNoSerial) = 0

(***************************************************************************)
(* C12                                                                     *)
(***************************************************************************)
\* The table entries that have a keyword occurring in the normalized name n
MatchingEntries(n) ==
  { e \in 1..Len(VIEW_KEYWORDS) :
      \E q \in 1..Len(VIEW_KEYWORDS[e].keywords) :
        includes(n, VIEW_KEYWORDS[e].keywords[q]) }

\* The view of the matching entry with the least index, null when none
FirstMatch(name) ==
  Call(MatchingEntries(normalize(name)), LAMBDA m :
    IF m = {} THEN Null
    ELSE VIEW_KEYWORDS[CHOOSE e \in m : \A d \in m : e <= d].view)

ContainsBase(name) == includes(normalize(name), <<"b","a","s","e">>)

\* C12: classifyView gives the view of the first table entry with a keyword
\* in the normalized filename, null when no entry matches; a filename
\* containing "base" gets bottom or an earlier entry's view, never
\* handle_base; and the loop counts that view for an unlabelled image.
C12_FirstMatchingEntryWins ==
  \A k \in 1..Len(files) :
    \A name \in { files[k].originalname } :
      \A v \in { classifyView(name) } :
        /\ v = FirstMatch(name)
        /\ ContainsBase(name) => v \in { "front", "back", "side", "bottom" }
        /\ ( /\ k \in Processed
             /\ files[k].size >= 60000
             /\ GetProperty(labels, name) = Null
             /\ v # Null )
            => v \in views

\* "handle_base.jpg" and "Handle  Base.JPG" were counted as bottom, and no
\* image as handle_base
C12_Witness ==
  /\ HasResult
  /\ Len(files) = 2
  /\ files[1].originalname = handle_base_jpg
  /\ files[2].originalname = Handle_Base_JPG
  /\ views = { "bottom" }

(***************************************************************************)
(* C13                                                                     *)
(***************************************************************************)
\* C13: the files that reach buildCoreVerdict are at most 10; the number of
\* low-quality red flags plus the number of distinct views seen never
\* exceeds the number of files dealt with; so whenever all ten required
\* views are seen red_flags has at most one entry, which is a serial-format
\* flag, and the result is never Likely Not Authentic.
C13_NeverNotAuthenticWithinLimit ==
  /\ Len(files) <= 10
  /\ Cardinality(LowQualityFlags) + Cardinality(views) <= Cardinality(Processed)
  /\ (HasResult /\ Unseen = {}) =>
       /\ Len(result.red_flags) <= 1
       /\ CountIn(result.red_flags, FormatFlags) = Len(result.red_flags)
       /\ result.verdict = "Likely Authentic"
  /\ HasResult => result.verdict # "Likely Not Authentic"

\* Ten files, every required view seen, and the one red flag there can be
C13_Witness ==
  /\ HasResult
  /\ Len(files) = 10
  /\ Unseen = {}
  /\ Len(result.red_flags) = 1
  /\ result.verdict = "Likely Authentic"

(***************************************************************************)
(* C14                                                                     *)
(***************************************************************************)
\* An OCR call that gave no usable text: it threw, answered nothing, or
\* answered text without a letter or a digit
UnusableOutcome(o) ==
  \/ o.kind = "throws"
  \/ o.kind = "no_choice"
  \/ ( /\ o.kind = "content"
       /\ \A k \in 1..Len(o.content) :
            ~ (IsUpper(o.content[k]) \/ IsLower(o.content[k])
                 \/ o.content[k] \in Digits) )

NoUsableText ==
  \A c \in 1..Len(ocrLog) : UnusableOutcome(ocrLog[c].outcome)

\* C14: with a clear serial-bearing image seen and no usable text from any
\* OCR call, the result for louis_vuitton or gucci holds that brand's
\* serial-format red flag and no "plausible" reason, and the result for
\* chanel or prada holds the "plausible" reason and no serial-format flag.
C14_PlaceholderSerial ==
  (HasResult /\ ClearSerialImages # {} /\ NoUsableText) =>
    /\ inferredBrand = "louis_vuitton" =>
         /\ Occurrences(result.red_flags, IssueFlag(LVIssue)) = 1
         /\ CountIn(result.reasons, PlausibleReasons) = 0
    /\ inferredBrand = "gucci" =>
         /\ Occurrences(result.red_flags, IssueFlag(GucciIssue)) = 1
         /\ CountIn(result.reasons, PlausibleReasons) = 0
    /\ inferredBrand \in { "chanel", "prada" } =>
         /\ Occurrences(result.reasons, PlausibleReason(inferredBrand)) = 1
         /\ CountIn(result.red_flags, FormatFlags) = 0

\* louis_vuitton, a clear serial image, and an OCR call that answered "--"
C14_Witness ==
  /\ HasResult
  /\ inferredBrand = "louis_vuitton"
  /\ ClearSerialImages # {}
  /\ NoUsableText
  /\ \E c \in 1..Len(ocrLog) : ocrLog[c].outcome.kind = "content"
  /\ Occurrences(result.red_flags, IssueFlag(LVIssue)) = 1

====
